---- MODULE Spec2Model ----
(***************************************************************************)
(* Model of the y3 tokenizer (src/src/tokenizer.rs).                       *)
(*                                                                         *)
(* A text (a line, a chunk, a word) is a sequence of characters; a         *)
(* character is a one-character string, except the em-dash U+2014, which   *)
(* is written EmDash and is three bytes long in UTF-8.  Offsets are byte   *)
(* offsets, as in the Rust code (str::len, Match::start, Match::end).      *)
(***************************************************************************)
EXTENDS Integers, Sequences, FiniteSets, TLC

VARIABLES
    tokens,      \* Tokenizer.tokens: the Vec<Token>
    pc,          \* position of the running tokenize call: "idle", "lines", "chunks"
    file,        \* the lines the BufReader of the running call yields
    line_no,     \* the 0-based index enumerate() gives the current line
    chunks,      \* split_whitespace() of the current line
    ci,          \* 1-based index of the chunk the inner loop is about to process
    offset,      \* the local `offset` of the current line
    result,      \* outcome of the last call: "none" (no call yet), "running",
                 \* "ok", "err" (tokenize), "cleared" (clear_tokens)
    before,      \* history: tokens when the last tokenize call started
                 \* (file, line_no and before are reset by clear_tokens)
    origin,      \* history: for each token, the candidate match it came from
    word,        \* argument of a direct split_word_cases call
    split_words  \* its return value (<<>> before the call; a return value
                 \* always has at least one segment)

vars == <<tokens, pc, file, line_no, chunks, ci, offset, result, before,
          origin, word, split_words>>

tokVars == <<tokens, pc, file, line_no, chunks, ci, offset, result, before, origin>>

(***************************************************************************)
(* Characters                                                              *)
(***************************************************************************)
Lower == {"a","b","c","d","e","f","g","h","i","j","k","l","m",
          "n","o","p","q","r","s","t","u","v","w","x","y","z"}

Upper == {"A","B","C","D","E","F","G","H","I","J","K","L","M",
          "N","O","P","Q","R","S","T","U","V","W","X","Y","Z"}

Digit == {"0","1","2","3","4","5","6","7","8","9"}

Letter == Lower \cup Upper

EmDash == "EMDASH"

\* char::is_whitespace, restricted to the characters a line can hold here
Whitespace == {" ", "\t"}

\* char::is_alphanumeric
is_alphanumeric(c) == c \in Letter \cup Digit

\* char::is_uppercase
is_uppercase(c) == c \in Upper

\* the regex class \w
WordChar == Letter \cup Digit \cup {"_"}

\* UTF-8 length of one character
ByteLen(c) == IF c = EmDash THEN 3 ELSE 1

\* str::len: the length in bytes
RECURSIVE StrLen(_)
StrLen(s) == IF s = <<>> THEN 0 ELSE ByteLen(Head(s)) + StrLen(Tail(s))

RECURSIVE Concat(_)
Concat(ss) == IF ss = <<>> THEN <<>> ELSE Head(ss) \o Concat(Tail(ss))

\* first 0-based index >= p whose character is outside set S (Len(s) if none)
RECURSIVE RunEnd(_, _, _)
RunEnd(s, p, S) ==
    IF p < Len(s) /\ s[p + 1] \in S THEN RunEnd(s, p + 1, S) ELSE p

(***************************************************************************)
(* Patterns::new                                                           *)
(***************************************************************************)
\* the byte sequence t occurs in s at 0-based index i
OccursAt(s, t, i) ==
    /\ i + Len(t) <= Len(s)
    /\ \A k \in 1..Len(t) : s[i + k] = t[k]

\* \b at 0-based index i of s
WordBoundary(s, i) ==
    LET l == i >= 1 /\ i <= Len(s) /\ s[i] \in WordChar
        r == i < Len(s) /\ s[i + 1] \in WordChar
    IN  l # r

\* https?://\S+
MatchesUrl(s) ==
    \E i \in 0..Len(s) :
        \/ /\ OccursAt(s, <<"h","t","t","p",":","/","/">>, i)
           /\ i + 7 < Len(s) /\ s[i + 8] \notin Whitespace
        \/ /\ OccursAt(s, <<"h","t","t","p","s",":","/","/">>, i)
           /\ i + 8 < Len(s) /\ s[i + 9] \notin Whitespace

PathChar == WordChar \cup {"-", "."}

\* [\w\-\.]+(/[\w\-\.]+)+
MatchesFilePath(s) ==
    \E i \in 1..(Len(s) - 2) :
        s[i] \in PathChar /\ s[i + 1] = "/" /\ s[i + 2] \in PathChar

\* \b\d+\b
MatchesNumber(s) ==
    \E b \in 0..Len(s) : \E e \in (b + 1)..Len(s) :
        /\ WordBoundary(s, b)
        /\ \A k \in (b + 1)..e : s[k] \in Digit
        /\ WordBoundary(s, e)

\* \\[a-zA-Z]+[{[^()]+}]*   (the trailing class is starred: it may be empty)
MatchesRegexLiteral(s) ==
    \E i \in 1..(Len(s) - 1) : s[i] = "\\" /\ s[i + 1] \in Letter

EmailLocal == Letter \cup Digit \cup {".", "_", "%", "+", "-"}

EmailDomain == Letter \cup Digit \cup {".", "-"}

\* \b[A-Za-z0-9._%+-]+@[A-Za-z0-9.-]+\.[A-Za-z]{2,}\b
MatchesEmail(s) ==
    \E b \in 0..Len(s) : \E a \in (b + 1)..Len(s) :
    \E d \in (a + 2)..Len(s) : \E e \in (d + 3)..Len(s) :
        /\ WordBoundary(s, b)
        /\ \A k \in (b + 1)..a : s[k] \in EmailLocal
        /\ a < Len(s) /\ s[a + 1] = "@"
        /\ \A k \in (a + 2)..d : s[k] \in EmailDomain
        /\ d < Len(s) /\ s[d + 1] = "."
        /\ \A k \in (d + 2)..e : s[k] \in Letter
        /\ WordBoundary(s, e)

\* ignore_patterns.iter().any(|p| p.is_match(chunk))
IsIgnored(chunk) ==
    \/ MatchesUrl(chunk)
    \/ MatchesFilePath(chunk)
    \/ MatchesNumber(chunk)
    \/ MatchesRegexLiteral(chunk)
    \/ MatchesEmail(chunk)

\* split_pattern: [ _\-EmDash]
SplitChars == {" ", "_", "-", EmDash}

\* Regex::split: the pieces between the separators, empty pieces included
RECURSIVE SplitOn(_, _)
SplitOn(s, Seps) ==
    LET i == RunEnd(s, 0, { s[k] : k \in 1..Len(s) } \ Seps)
    IN  IF i < Len(s)
        THEN <<SubSeq(s, 1, i)>> \o SplitOn(SubSeq(s, i + 2, Len(s)), Seps)
        ELSE <<s>>

\* word_pattern.find_iter: [a-zA-Z]+[0-9]*[a-zA-Z]*, leftmost, greedy,
\* non-overlapping; start and end are byte offsets in s, end exclusive
RECURSIVE FindWordsFrom(_, _)
FindWordsFrom(s, p) ==
    IF p >= Len(s) THEN <<>>
    ELSE IF s[p + 1] \notin Letter THEN FindWordsFrom(s, p + 1)
    ELSE LET e == RunEnd(s, RunEnd(s, RunEnd(s, p, Letter), Digit), Letter)
         IN  <<[start |-> StrLen(SubSeq(s, 1, p)),
                end   |-> StrLen(SubSeq(s, 1, e)),
                text  |-> SubSeq(s, p + 1, e)]>> \o FindWordsFrom(s, e)

FindWords(s) == FindWordsFrom(s, 0)

(***************************************************************************)
(* str helpers used by tokenize                                            *)
(***************************************************************************)
\* str::split_whitespace: the non-empty pieces between whitespace
split_whitespace(line) == SelectSeq(SplitOn(line, Whitespace), LAMBDA c : c # <<>>)

RECURSIVE TrimStart(_)
TrimStart(s) ==
    IF s # <<>> /\ ~is_alphanumeric(Head(s)) /\ Head(s) # "'"
    THEN TrimStart(Tail(s)) ELSE s

RECURSIVE TrimEnd(_)
TrimEnd(s) ==
    IF s # <<>> /\ ~is_alphanumeric(s[Len(s)]) /\ s[Len(s)] # "'"
    THEN TrimEnd(SubSeq(s, 1, Len(s) - 1)) ELSE s

\* chunk.trim().trim_start_matches(..).trim_end_matches(..)
TrimEdges(chunk) == TrimEnd(TrimStart(chunk))

(***************************************************************************)
(* Tokenizer::split_word_cases                                             *)
(***************************************************************************)
\* word[start..i].chars().all(char::is_uppercase), on 1-based positions a..b
AllUpper(w, a, b) == \A k \in a..b : is_uppercase(w[k])

\* SplitLoop without line 441: the remaining part of the word is not appended
RECURSIVE SplitLoopDropsTail(_, _, _, _)
SplitLoopDropsTail(w, i, start, res) ==
    IF i > Len(w)
    THEN res
    ELSE IF i > 1 /\ is_uppercase(w[i]) /\ ~AllUpper(w, start, i - 1)
         THEN SplitLoopDropsTail(w, i + 1, i, Append(res, SubSeq(w, start, i - 1)))
         ELSE SplitLoopDropsTail(w, i + 1, start, res)

\* the loop over char_indices: i is the 1-based position of the character
\* looked at, start the 1-based position where the open segment begins
RECURSIVE SplitLoop(_, _, _, _)
SplitLoop(w, i, start, res) ==
    IF i > Len(w)
    THEN Append(res, SubSeq(w, start, Len(w)))
    ELSE IF i > 1 /\ is_uppercase(w[i]) /\ ~AllUpper(w, start, i - 1)
         THEN SplitLoop(w, i + 1, i, Append(res, SubSeq(w, start, i - 1)))
         ELSE SplitLoop(w, i + 1, start, res)

split_word_cases(w) == SplitLoop(w, 1, 1, <<>>)

(***************************************************************************)
(* Tokenizer::tokenize, the body of the loop over chunks                   *)
(***************************************************************************)
\* NewToken with `end` stored as computed on line 383, one past the last byte
NewTokenEndExclusive(split_word, off, m, ln) ==
    [word    |-> split_word,
     start   |-> off + m.start,
     end     |-> off + m.end,
     line_no |-> ln + 1]

\* the Token pushed for one split word of the match m (lines 382-392)
NewToken(split_word, off, m, ln) ==
    [word    |-> split_word,
     start   |-> off + m.start,
     end     |-> (off + m.end) - 1,
     line_no |-> ln + 1]

\* one iteration of the loop over find_iter (lines 370-394): the split words
\* of the match, none when the match is one byte long
MatchWords(m) ==
    IF StrLen(m.text) = 1 THEN <<>> ELSE split_word_cases(m.text)

MatchTokens(m, off, ln) ==
    LET ws == MatchWords(m)
    IN  [k \in 1..Len(ws) |-> NewToken(ws[k], off, m, ln)]

RECURSIVE MatchesTokens(_, _, _)
MatchesTokens(ms, off, ln) ==
    IF ms = <<>> THEN <<>>
    ELSE MatchTokens(Head(ms), off, ln) \o MatchesTokens(Tail(ms), off, ln)

RECURSIVE MatchesOrigins(_)
MatchesOrigins(ms) ==
    IF ms = <<>> THEN <<>>
    ELSE [k \in 1..Len(MatchWords(Head(ms))) |-> Head(ms).text]
         \o MatchesOrigins(Tail(ms))

\* the matches the loop over sub_chunks visits (lines 362-370), in order;
\* each match's offsets are those find_iter reports, in its own sub_chunk
RECURSIVE SubChunkMatches(_)
SubChunkMatches(subs) ==
    IF subs = <<>> THEN <<>>
    ELSE (IF Head(subs) = <<>> THEN <<>> ELSE FindWords(Head(subs)))
         \o SubChunkMatches(Tail(subs))

ChunkMatches(chunk) == SubChunkMatches(SplitOn(chunk, SplitChars))

\* Skipped without the ignore_patterns test of lines 352-359
SkippedOnlyEmpty(chunk) == chunk = <<>>

\* a chunk the loop abandons with `continue` (lines 347-359)
Skipped(chunk) == chunk = <<>> \/ IsIgnored(chunk)

\* the tokens one chunk of a line appends; raw is the chunk as split off
ChunkTokens(raw, off, ln) ==
    LET chunk == TrimEdges(raw)
    IN  IF Skipped(chunk) THEN <<>>
        ELSE MatchesTokens(ChunkMatches(chunk), off, ln)

ChunkOrigins(raw) ==
    LET chunk == TrimEdges(raw)
    IN  IF Skipped(chunk) THEN <<>> ELSE MatchesOrigins(ChunkMatches(chunk))

\* `offset` after the chunk: line 399 is skipped by both `continue`s, and
\* `chunk` there is the trimmed chunk
NextOffset(raw, off) ==
    LET chunk == TrimEdges(raw)
    IN  IF Skipped(chunk) THEN off ELSE off + StrLen(chunk) + 1

(***************************************************************************)
(* tokenize as a function: what a new Tokenizer holds after tokenize(f)    *)
(***************************************************************************)
\* the loop over the chunks of one line, from chunk list cs and offset off
RECURSIVE ChunksTokens(_, _, _)
ChunksTokens(cs, off, ln) ==
    IF cs = <<>> THEN <<>>
    ELSE ChunkTokens(Head(cs), off, ln)
         \o ChunksTokens(Tail(cs), NextOffset(Head(cs), off), ln)

LineTokens(line, ln) == ChunksTokens(split_whitespace(line), 0, ln)

\* the loop over the lines, ln being the enumerate() index of the first
RECURSIVE LinesTokens(_, _)
LinesTokens(lines, ln) ==
    IF lines = <<>> THEN <<>>
    ELSE LineTokens(Head(lines), ln) \o LinesTokens(Tail(lines), ln + 1)

FreshTokens(f) == LinesTokens(f, 0)

(***************************************************************************)
(* Inputs                                                                  *)
(***************************************************************************)
MaxLen == 4       \* longest generated line

MaxLines == 2     \* most lines in a generated multi-line file

MaxPrior == 1     \* most tokens a Tokenizer holds when it is used again

MaxWordLen == 4   \* longest generated argument of split_word_cases

SeqsUpTo(S, n) == UNION { [1..k -> S] : k \in 0..n }

SeqsFromTo(S, m, n) == UNION { [1..k -> S] : k \in m..n }

\* "Visit https://example.com today"
LineVisit ==
    <<"V","i","s","i","t"," ","h","t","t","p","s",":","/","/","e","x","a",
      "m","p","l","e",".","c","o","m"," ","t","o","d","a","y">>

\* "fooBarBaz"
LineFooBarBaz ==
    <<"f","o","o","B","a","r","B","a","z">>

\* "a snake_case_word"
LineSnake ==
    <<"a"," ","s","n","a","k","e","_","c","a","s","e","_","w","o","r","d">>

\* "Contact me@test.com please"
LineContact ==
    <<"C","o","n","t","a","c","t"," ","m","e","@","t","e","s","t",".","c",
      "o","m"," ","p","l","e","a","s","e">>

\* "Error 404 occurred"
LineError ==
    <<"E","r","r","o","r"," ","4","0","4"," ","o","c","c","u","r","r","e",
      "d">>

\* "TITLECase word"
LineTitle ==
    <<"T","I","T","L","E","C","a","s","e"," ","w","o","r","d">>

\* "ab1cd2ef_gh"
LineDigits ==
    <<"a","b","1","c","d","2","e","f","_","g","h">>

\* "snake_case"
LineSnakeCase ==
    <<"s","n","a","k","e","_","c","a","s","e">>

\* "(hello), src/main.rs x\d+ it's ... end."
LineNoise ==
    <<"(","h","e","l","l","o",")",","," ","s","r","c","/","m","a","i","n",
      ".","r","s"," ","x","\\","d","+"," ","i","t","'","s"," ",".",".",".",
      " ","e","n","d",".">>

\* "run<em-dash>but  Get-Item\tok"
LineDashes ==
    <<"r","u","n",EmDash,"b","u","t"," "," ","G","e","t","-","I","t","e",
      "m","\t","o","k">>

ExampleLines ==
    {LineVisit, LineFooBarBaz, LineSnake, LineContact, LineError, LineTitle,
     LineDigits, LineSnakeCase, LineNoise, LineDashes}

GenChars == {"a", "B", "1", "_", "/", ".", " "}

GenLines == SeqsUpTo(GenChars, MaxLen)

MultiLines == {LineFooBarBaz, LineError, <<"a","B">>, <<>>}

\* a file is the sequence of its lines
Files ==
    { <<l>> : l \in ExampleLines \cup GenLines }
        \cup SeqsFromTo(MultiLines, 2, MaxLines) \cup {<<>>}

\* the files a Tokenizer that already holds tokens is given
ReuseFiles == { <<LineFooBarBaz>>, <<LineSnake>>, <<LineError, <<"a","B">>>>, <<>> }

\* "TITLECase"
WordTitleCase ==
    <<"T","I","T","L","E","C","a","s","e">>

\* "camelCaseExample"
WordCamel ==
    <<"c","a","m","e","l","C","a","s","e","E","x","a","m","p","l","e">>

\* "simple"
WordSimple ==
    <<"s","i","m","p","l","e">>

CaseChars == {"a", "b", "A", "B", "1"}

Words == SeqsUpTo(CaseChars, MaxWordLen) \cup {WordTitleCase, WordCamel, WordSimple}

(***************************************************************************)
(* The Tokenizer as a state machine                                        *)
(***************************************************************************)
\* Tokenizer::new; no call made yet
Init ==
    /\ tokens = <<>>
    /\ pc = "idle"
    /\ file = <<>>
    /\ line_no = 0
    /\ chunks = <<>>
    /\ ci = 1
    /\ offset = 0
    /\ result = "none"
    /\ before = <<>>
    /\ origin = <<>>
    /\ word = <<>>
    /\ split_words = <<>>

\* the files a call is explored on: any file on a Tokenizer that is new or
\* was just cleared, a file of ReuseFiles on one that holds at most MaxPrior
\* tokens
Offered ==
    IF pc # "idle" THEN {}
    ELSE IF result \in {"none", "cleared"} THEN Files
    ELSE IF Len(tokens) <= MaxPrior THEN ReuseFiles
    ELSE {}

\* tokenize: File::open fails and `?` returns the error
TokenizeOpenFails ==
    /\ pc = "idle"
    /\ result' = "err"
    /\ before' = tokens
    /\ file' = <<>>
    /\ line_no' = 0
    /\ UNCHANGED <<tokens, pc, chunks, ci, offset, origin, word, split_words>>

\* TokenizeOpen in a tokenize that starts by emptying self.tokens
TokenizeOpenClears(f) ==
    /\ pc = "idle"
    /\ pc' = "lines"
    /\ file' = f
    /\ line_no' = 0
    /\ result' = "running"
    /\ before' = tokens
    /\ tokens' = <<>>
    /\ origin' = <<>>
    /\ UNCHANGED <<chunks, ci, offset, word, split_words>>

\* tokenize: File::open succeeds on a file whose lines are f
TokenizeOpen(f) ==
    /\ pc = "idle"
    /\ pc' = "lines"
    /\ file' = f
    /\ line_no' = 0
    /\ result' = "running"
    /\ before' = tokens
    /\ UNCHANGED <<tokens, chunks, ci, offset, origin, word, split_words>>

\* the loop over reader.lines(): the next line is read and split
ReadLine ==
    /\ pc = "lines"
    /\ line_no < Len(file)
    /\ chunks' = split_whitespace(file[line_no + 1])
    /\ ci' = 1
    /\ offset' = 0
    /\ pc' = "chunks"
    /\ UNCHANGED <<tokens, file, line_no, result, before, origin, word, split_words>>

\* ReadLineFails in a tokenize that drops what the call appended on failure
ReadLineFailsRollsBack ==
    /\ pc = "lines"
    /\ line_no < Len(file)
    /\ result' = "err"
    /\ pc' = "idle"
    /\ tokens' = before
    /\ origin' = SubSeq(origin, 1, Len(before))
    /\ UNCHANGED <<file, line_no, chunks, ci, offset, before, word, split_words>>

\* the loop over reader.lines(): reading the next line fails, `line?` returns
ReadLineFails ==
    /\ pc = "lines"
    /\ line_no < Len(file)
    /\ result' = "err"
    /\ pc' = "idle"
    /\ UNCHANGED <<tokens, file, line_no, chunks, ci, offset, before, origin,
                   word, split_words>>

\* one iteration of the loop over chunks
ProcessChunk ==
    /\ pc = "chunks"
    /\ ci <= Len(chunks)
    /\ tokens' = tokens \o ChunkTokens(chunks[ci], offset, line_no)
    /\ origin' = origin \o ChunkOrigins(chunks[ci])
    /\ offset' = NextOffset(chunks[ci], offset)
    /\ ci' = ci + 1
    /\ UNCHANGED <<pc, file, line_no, chunks, result, before, word, split_words>>

\* the chunks of the line are exhausted: on to the next line
EndOfLine ==
    /\ pc = "chunks"
    /\ ci > Len(chunks)
    /\ line_no' = line_no + 1
    /\ chunks' = <<>>
    /\ ci' = 1
    /\ offset' = 0
    /\ pc' = "lines"
    /\ UNCHANGED <<tokens, file, result, before, origin, word, split_words>>

\* the lines are exhausted: Ok(())
TokenizeReturns ==
    /\ pc = "lines"
    /\ line_no = Len(file)
    /\ result' = "ok"
    /\ pc' = "idle"
    /\ UNCHANGED <<tokens, file, line_no, chunks, ci, offset, before, origin,
                   word, split_words>>

\* Tokenizer::clear_tokens
clear_tokens ==
    /\ pc = "idle"
    /\ tokens' = <<>>
    /\ origin' = <<>>
    /\ result' = "cleared"
    /\ file' = <<>>
    /\ line_no' = 0
    /\ before' = <<>>
    /\ UNCHANGED <<pc, chunks, ci, offset, word, split_words>>

Next ==
    \/ TokenizeOpenFails
    \/ \E f \in Offered : TokenizeOpen(f)
    \/ ReadLine
    \/ ReadLineFails
    \/ ProcessChunk
    \/ EndOfLine
    \/ TokenizeReturns
    \/ clear_tokens

Spec == Init /\ [][Next]_vars

(***************************************************************************)
(* split_word_cases on its own: the argument is drawn, then the call made  *)
(***************************************************************************)
InitSplit ==
    /\ tokens = <<>>
    /\ pc = "idle"
    /\ file = <<>>
    /\ line_no = 0
    /\ chunks = <<>>
    /\ ci = 1
    /\ offset = 0
    /\ result = "none"
    /\ before = <<>>
    /\ origin = <<>>
    /\ word \in Words
    /\ split_words = <<>>

CallSplit ==
    /\ split_words = <<>>
    /\ split_words' = split_word_cases(word)
    /\ UNCHANGED <<tokVars, word>>

NextSplit == CallSplit

SpecSplit == InitSplit /\ [][NextSplit]_vars

(***************************************************************************)
(* Properties                                                              *)
(***************************************************************************)
WordsOf(ts) == [k \in 1..Len(ts) |-> ts[k].word]

\* the tokens the last tokenize call appended
Appended == SubSeq(tokens, Len(before) + 1, Len(tokens))

\* C1: single letters never become tokens: every token's word, the pieces
\* split_word_cases makes of a longer candidate included, is at least two
\* bytes long.
C1_NoSingleLetterTokens ==
    \A k \in 1..Len(tokens) : StrLen(tokens[k].word) >= 2

\* an uppercase run of m + 1 letters followed by lowercase letters only
UpperRunThenCapitalised(w, m) ==
    /\ m >= 1
    /\ m + 2 <= Len(w)
    /\ \A k \in 1..(m + 1) : w[k] \in Upper
    /\ \A k \in (m + 2)..Len(w) : w[k] \in Lower

\* C2: for a word made of an uppercase run followed by a capitalised
\* lowercase word ("TITLECase"), split_word_cases returns the run and the
\* capitalised word as two segments (<<"TITLE", "Case">>).
C2_UpperRunSplitsBeforeCapitalised ==
    split_words # <<>> =>
        \A m \in 1..Len(word) :
            UpperRunThenCapitalised(word, m) =>
                split_words = <<SubSeq(word, 1, m), SubSeq(word, m + 1, Len(word))>>

\* C3: the segments split_word_cases returns, concatenated in order, are
\* the argument; a word with no uppercase letter after its first character
\* comes back as the one-element list holding it.
C3_SplitRoundTrip ==
    split_words # <<>> =>
        /\ Concat(split_words) = word
        /\ (\A k \in 2..Len(word) : word[k] \notin Upper) => split_words = <<word>>

C3_Witness ==
    /\ Len(split_words) >= 3
    /\ \E k \in 1..Len(word) : word[k] \in Digit

\* C4: among the tokens one tokenize call appends for one line, start never
\* decreases in emission order.
C4_StartsNonDecreasing ==
    \A i \in 1..Len(Appended) : \A j \in i..Len(Appended) :
        Appended[i].line_no = Appended[j].line_no
            => Appended[i].start <= Appended[j].start

\* C5: a successful tokenize(f) leaves the tokens held before it in place and
\* appends exactly what a new Tokenizer produces for f; clear_tokens leaves
\* the sequence empty, so a re-run after it reproduces the fresh result.
C5_TokenizeAdditive ==
    /\ result = "ok" => tokens = before \o FreshTokens(file)
    /\ result = "cleared" => tokens = <<>>

C5_Witness ==
    /\ result = "ok"
    /\ before # <<>>
    /\ Len(tokens) > Len(before) + 1

\* C6: when tokenize returns an error, the tokens are those held before the
\* call followed by exactly the tokens of the lines read before the failing
\* one (none when the open failed); nothing of the failing or a later line.
C6_ErrorKeepsEarlierLines ==
    result = "err" => tokens = before \o FreshTokens(SubSeq(file, 1, line_no))

C6_Witness ==
    /\ result = "err"
    /\ line_no = 1
    /\ Len(file) = 2
    /\ before # <<>>
    /\ Len(tokens) > Len(before)
    /\ FreshTokens(file) # FreshTokens(SubSeq(file, 1, 1))

\* the chunks of a line that no ignore pattern matches, joined by one space
RECURSIVE Join(_)
Join(cs) ==
    IF cs = <<>> THEN <<>>
    ELSE IF Len(cs) = 1 THEN cs[1]
    ELSE Head(cs) \o <<" ">> \o Join(Tail(cs))

WithoutIgnored(line) ==
    Join(SelectSeq(split_whitespace(line), LAMBDA c : ~IsIgnored(TrimEdges(c))))

HasIgnoredChunk(line) ==
    \E k \in 1..Len(split_whitespace(line)) :
        IsIgnored(TrimEdges(split_whitespace(line)[k]))

Str_Visit == <<"V","i","s","i","t">>

Str_today == <<"t","o","d","a","y">>

Str_Error == <<"E","r","r","o","r">>

Str_occurred == <<"o","c","c","u","r","r","e","d">>

\* C7: a chunk an ignore pattern matches appends no token and the other
\* chunks are tokenized as if it were not there: the words a call appends
\* are the words of the file with its ignored chunks deleted.
C7_IgnoredChunksEmitNothing ==
    result = "ok" =>
        /\ WordsOf(Appended) =
               WordsOf(FreshTokens([k \in 1..Len(file) |-> WithoutIgnored(file[k])]))
        /\ file = <<LineVisit>> => WordsOf(Appended) = <<Str_Visit, Str_today>>
        /\ file = <<LineError>> => WordsOf(Appended) = <<Str_Error, Str_occurred>>

C7_Witness ==
    /\ result = "ok"
    /\ Len(file) = 1
    /\ HasIgnoredChunk(file[1])
    /\ Len(Appended) >= 2

\* C8: every token has start <= end and line_no >= 1, end - start + 1 is the
\* byte length of the candidate match it came from, and that candidate
\* occurs in the line of the file that line_no names.
C8_PositionWellFormed ==
    /\ Len(origin) = Len(tokens)
    /\ \A k \in 1..Len(tokens) :
        /\ tokens[k].start <= tokens[k].end
        /\ tokens[k].line_no >= 1
        /\ tokens[k].end - tokens[k].start + 1 = StrLen(origin[k])
    /\ result \in {"running", "ok", "err"} =>
        \A k \in (Len(before) + 1)..Len(tokens) :
            /\ tokens[k].line_no <= Len(file)
            /\ \E p \in 0..Len(file[tokens[k].line_no]) :
                   OccursAt(file[tokens[k].line_no], origin[k], p)

C8_Witness ==
    /\ result = "ok"
    /\ \E k \in 1..Len(Appended) :
        /\ Appended[k].line_no = 2
        /\ Appended[k].start > 0
        /\ Appended[k].end > Appended[k].start

\* the offset the chunk at index k of cs should be processed at: the byte
\* lengths of the chunks before it, as read, plus one each
RECURSIVE OffsetBefore(_, _)
OffsetBefore(cs, k) ==
    IF k <= 1 THEN 0 ELSE OffsetBefore(cs, k - 1) + StrLen(cs[k - 1]) + 1

\* C9: when the k-th chunk of a line is processed, offset is the sum over the
\* earlier chunks of (byte length as read + 1), skipped chunks included.
C9_OffsetCountsEveryChunk ==
    pc = "chunks" => offset = OffsetBefore(chunks, ci)

\* the tokens of a chunk with every match placed by its offsets in the
\* trimmed chunk
ChunkTokensAtChunkOffsets(raw, off, ln) ==
    LET chunk == TrimEdges(raw)
    IN  IF Skipped(chunk) THEN <<>> ELSE MatchesTokens(FindWords(chunk), off, ln)

\* C10: a token's start and end are offset plus the match's bounds within
\* the trimmed chunk (end inclusive), shared by all split words of the match.
C10_PositionsRelativeToChunk ==
    [][(pc = "chunks" /\ ci <= Len(chunks))
          => tokens' = tokens \o ChunkTokensAtChunkOffsets(chunks[ci], offset, line_no)]_vars

====
